---- MODULE Spec2Model ----
(***************************************************************************)
(* The solc-transpiler entry point (packages/solc-transpiler/src/          *)
(* compiler.ts) and the bytecode transpiler it drives.                     *)
(*                                                                         *)
(* Bytes are naturals 0..255, byte buffers are sequences of bytes, and     *)
(* offsets into a buffer are 0-based as in the program.  A hex string is a *)
(* sequence of hex digits 0..15; the two characters "0x" are the single    *)
(* token HexPrefix.                                                        *)
(*                                                                         *)
(* The transpiler itself (TranspilerImpl, OpcodeWhitelistImpl,             *)
(* OpcodeReplacerImpl of rollup-dev-tools) is only imported by compiler.ts;*)
(* it is modelled from sections 3 and 4 of the specification.              *)
(***************************************************************************)
EXTENDS Integers, Sequences, FiniteSets, TLC

(***************************************************************************)
(* Bounds of the model.                                                    *)
(***************************************************************************)
\* Longest bytecode buffer given to the transpiler stage machine.
MaxCodeLen == 5

\* Largest number of contracts in one compiler-output batch.
MaxContracts == 2

\* Largest number of files in an outputSelection, and of contracts in a file
\* of it.
MaxSelection == 2

(***************************************************************************)
(* Opcode Table (spec 4.1): the instruction set and its immediates.        *)
(***************************************************************************)
STOP == 0
ADDRESS == 48
BALANCE == 49
CALLER == 51
JUMP == 86
JUMPI == 87
PUSH1 == 96
PUSH20 == 115
PUSH32 == 127
CREATE == 240
CALL == 241
CREATE2 == 245

\* The codes that have an assigned meaning; every other byte is UnknownOpcode.
IsDefined(code) ==
    \/ code \in 0..11
    \/ code \in 16..29
    \/ code = 32
    \/ code \in 48..69
    \/ code \in 80..91
    \/ code \in 96..164
    \/ code \in 240..245
    \/ code \in {250, 253, 254, 255}

\* Length of the immediate operand: 1..32 for the push instructions, else 0.
ImmediateLen(code) ==
    IF code \in PUSH1..PUSH32 THEN code - PUSH1 + 1 ELSE 0

(***************************************************************************)
(* Opcode Whitelist (spec 4.2): bit i of the 256-bit mask permits code i.  *)
(* The mask is kept as its 64 hex digits, most significant first.          *)
(***************************************************************************)
\* The mask with one digit wrong: bit 0x30 (ADDRESS) set as well.
MaskAllowingAddress ==
    << 6, 0, 0, 10,   0, 0, 0, 0,   0, 0, 0, 0,   0, 0, 0, 0,
       0, 0, 0, 0,    0, 0, 1, 15,  15, 15, 15, 15,  15, 15, 15, 15,
       15, 15, 15, 15,  15, 15, 15, 15,  0, 15, 12, 15,  0, 0, 0, 0,
       6, 3, 15, 1,   0, 0, 0, 1,   3, 15, 15, 15,  0, 15, 15, 15 >>

\* 0x600a0000000000000000001fffffffffffffffff0fcf000063f000013fff0fff
DEFAULT_OPCODE_WHITELIST_MASK ==
    << 6, 0, 0, 10,   0, 0, 0, 0,   0, 0, 0, 0,   0, 0, 0, 0,
       0, 0, 0, 0,    0, 0, 1, 15,  15, 15, 15, 15,  15, 15, 15, 15,
       15, 15, 15, 15,  15, 15, 15, 15,  0, 15, 12, 15,  0, 0, 0, 0,
       6, 3, 15, 0,   0, 0, 0, 1,   3, 15, 15, 15,  0, 15, 15, 15 >>

Pow2(n) == IF n = 0 THEN 1 ELSE IF n = 1 THEN 2 ELSE IF n = 2 THEN 4 ELSE 8

MaskBit(mask, i) ==
    (mask[Len(mask) - (i \div 4)] \div Pow2(i % 4)) % 2

isAllowed(code) ==
    MaskBit(DEFAULT_OPCODE_WHITELIST_MASK, code) = 1

(***************************************************************************)
(* Opcode Replacer (spec 4.3).                                             *)
(***************************************************************************)
\* The configured Execution Manager address: 20 bytes.
ExecutionManagerAddress == [k \in 1..20 |-> 66]

\* Context and contract-creation instructions are the ones mediated.
ReplacedOpcodes == {ADDRESS, CALLER, CREATE, CREATE2}

hasReplacement(code) == code \in ReplacedOpcodes

\* The substitute sequence: push the Execution Manager address, push the
\* selector of the mediated instruction, call.
replace(instruction) ==
    <<PUSH20>> \o ExecutionManagerAddress \o <<PUSH1, instruction.code, CALL>>

(***************************************************************************)
(* Transpiler (spec 4.4).                                                  *)
(***************************************************************************)
TranspilationError(index, message) == [index |-> index, message |-> message]

RECURSIVE DecodeFrom(_, _, _)
DecodeFrom(bytes, pos, acc) ==
    IF pos >= Len(bytes)
    THEN [ok |-> TRUE, instrs |-> acc, errors |-> <<>>]
    ELSE LET code == bytes[pos + 1]
             n == ImmediateLen(code)
         IN  IF ~IsDefined(code)
             THEN [ok |-> FALSE, instrs |-> <<>>,
                   errors |-> <<TranspilationError(pos, "UnknownOpcode")>>]
             ELSE IF pos + 1 + n > Len(bytes)
             THEN [ok |-> FALSE, instrs |-> <<>>,
                   errors |-> <<TranspilationError(pos, "TruncatedImmediate")>>]
             ELSE DecodeFrom(bytes, pos + 1 + n,
                      Append(acc, [originalOffset |-> pos, code |-> code,
                                   immediate |-> SubSeq(bytes, pos + 2, pos + 1 + n)]))

\* Decoding: one linear scan of the buffer.
Decode(bytes) == DecodeFrom(bytes, 0, <<>>)

Disallowed(instruction) ==
    ~isAllowed(instruction.code) /\ ~hasReplacement(instruction.code)

\* A validation that stops at the first violation.
ValidateFirstOnly(instrs) ==
    LET bad == SelectSeq(instrs, Disallowed)
    IN  IF bad = <<>> THEN <<>>
        ELSE <<TranspilationError(bad[1].originalOffset, "disallowed opcode")>>

\* Validating: one error per instruction that is neither whitelisted nor
\* replaceable, in stream order.
Validate(instrs) ==
    LET bad == SelectSeq(instrs, Disallowed)
    IN  [k \in 1..Len(bad) |->
            TranspilationError(bad[k].originalOffset, "disallowed opcode")]

OriginalBytes(instruction) == <<instruction.code>> \o instruction.immediate

Emit(instruction) ==
    IF hasReplacement(instruction.code)
    THEN replace(instruction)
    ELSE OriginalBytes(instruction)

RECURSIVE RewriteFrom(_, _, _, _)
RewriteFrom(instrs, k, out, jumpMap) ==
    IF k > Len(instrs)
    THEN [bytecode |-> out, jumpMap |-> jumpMap]
    ELSE RewriteFrom(instrs, k + 1, out \o Emit(instrs[k]),
                     jumpMap @@ (instrs[k].originalOffset :> Len(out)))

\* Rewriting: emit every instruction and record, for each, the new-stream
\* offset of its first emitted byte (the JumpMap).
Rewrite(instrs) == RewriteFrom(instrs, 1, <<>>, <<>>)

RECURSIVE BytesToNat(_)
BytesToNat(bytes) ==
    IF bytes = <<>> THEN 0
    ELSE 256 * BytesToNat(SubSeq(bytes, 1, Len(bytes) - 1)) + bytes[Len(bytes)]

RECURSIVE NatToBytes(_, _)
NatToBytes(value, n) ==
    IF n = 0 THEN <<>>
    ELSE Append(NatToBytes(value \div 256, n - 1), value % 256)

\* instrs[k] pushes a jump destination: a push whose value the next
\* instruction, JUMP or JUMPI, consumes.
IsJumpPush(instrs, k) ==
    /\ ImmediateLen(instrs[k].code) > 0
    /\ k < Len(instrs)
    /\ instrs[k + 1].code \in {JUMP, JUMPI}

Patch(out, at, bytes) ==
    [p \in 1..Len(out) |->
        IF p > at /\ p <= at + Len(bytes) THEN bytes[p - at] ELSE out[p]]

\* A remapping that leaves a destination it cannot find as it was.
RECURSIVE RemapLenientFrom(_, _, _, _)
RemapLenientFrom(instrs, k, out, jumpMap) ==
    IF k > Len(instrs)
    THEN [ok |-> TRUE, bytecode |-> out, errors |-> <<>>]
    ELSE IF ~IsJumpPush(instrs, k)
    THEN RemapLenientFrom(instrs, k + 1, out, jumpMap)
    ELSE LET target == BytesToNat(instrs[k].immediate)
             n == Len(instrs[k].immediate)
             at == jumpMap[instrs[k].originalOffset] + 1
         IN  IF target \notin DOMAIN jumpMap
             THEN RemapLenientFrom(instrs, k + 1, out, jumpMap)
             ELSE RemapLenientFrom(instrs, k + 1,
                      Patch(out, at, NatToBytes(jumpMap[target], n)), jumpMap)

RECURSIVE RemapFrom(_, _, _, _)
RemapFrom(instrs, k, out, jumpMap) ==
    IF k > Len(instrs)
    THEN [ok |-> TRUE, bytecode |-> out, errors |-> <<>>]
    ELSE IF ~IsJumpPush(instrs, k)
    THEN RemapFrom(instrs, k + 1, out, jumpMap)
    ELSE LET target == BytesToNat(instrs[k].immediate)
             n == Len(instrs[k].immediate)
             at == jumpMap[instrs[k].originalOffset] + 1
         IN  IF target \notin DOMAIN jumpMap
             THEN [ok |-> FALSE, bytecode |-> <<>>,
                   errors |-> <<TranspilationError(instrs[k].originalOffset,
                                                   "InvalidJumpTarget")>>]
             ELSE RemapFrom(instrs, k + 1,
                      Patch(out, at, NatToBytes(jumpMap[target], n)), jumpMap)

RemapLenient(instrs, out, jumpMap) == RemapLenientFrom(instrs, 1, out, jumpMap)

\* Remapping: rewrite every jump-destination immediate to the new-stream
\* offset of its target; a target that is no instruction start is fatal.
Remap(instrs, out, jumpMap) == RemapFrom(instrs, 1, out, jumpMap)

Successful(bytecode) == [succeeded |-> TRUE, bytecode |-> bytecode, errors |-> <<>>]

Errored(errors) == [succeeded |-> FALSE, bytecode |-> <<>>, errors |-> errors]

\* The whole pipeline on one buffer: Decoding, Validating, Rewriting,
\* Remapping, ending Successful (Encoded) or Errored (Failed).
TranspileBuffer(bytes) ==
    LET d == Decode(bytes)
    IN  IF ~d.ok THEN Errored(d.errors)
        ELSE LET v == Validate(d.instrs)
             IN  IF v # <<>> THEN Errored(v)
                 ELSE LET w == Rewrite(d.instrs)
                          m == Remap(d.instrs, w.bytecode, w.jumpMap)
                      IN  IF m.ok THEN Successful(m.bytecode)
                          ELSE Errored(m.errors)

(***************************************************************************)
(* Hex strings and buffers (core-utils helpers imported by compiler.ts).   *)
(***************************************************************************)
\* The two characters "0x" that bufToHexString puts before the digits.
HexPrefix == 16

None == <<>>

Some(x) == <<x>>

RECURSIVE BytesToHex(_)
BytesToHex(buf) ==
    IF buf = <<>> THEN <<>>
    ELSE <<buf[1] \div 16, buf[1] % 16>> \o BytesToHex(Tail(buf))

bufToHexString(buf) == <<HexPrefix>> \o BytesToHex(buf)

remove0x(str) ==
    IF str # <<>> /\ str[1] = HexPrefix THEN Tail(str) ELSE str

\* Buffer.from(digits, 'hex'): one byte per pair of digits; an odd last digit
\* is dropped.
hexStrToBuf(hexString) ==
    LET d == remove0x(hexString)
    IN  [i \in 1..(Len(d) \div 2) |-> 16 * d[2 * i - 1] + d[2 * i]]

\* code.split(separator)[0]: what precedes the first occurrence of the
\* separator in the string, the whole string if there is none.
SplitFirst(code, separator) ==
    LET n == Len(separator)
        hits == {i \in 1..(Len(code) - n + 1) : SubSeq(code, i, i + n - 1) = separator}
    IN  IF hits = {} THEN code
        ELSE SubSeq(code, 1, (CHOOSE i \in hits : \A j \in hits : i <= j) - 1)

(***************************************************************************)
(* compiler.ts: the per-contract helpers.                                  *)
(*                                                                         *)
(* A contract of the solc output is [bytecode, deployedBytecode, auxdata]: *)
(* evm.bytecode.object and evm.deployedBytecode.object as hex strings and  *)
(* evm.legacyAssembly['.data']['0']['.auxdata'] as None or Some(hex).      *)
(***************************************************************************)
getAuxData(contractSolcOutput) == contractSolcOutput.auxdata

getBytecode(contractSolcOutput, isDeployedBytecode) ==
    LET code == IF isDeployedBytecode
                THEN contractSolcOutput.deployedBytecode
                ELSE contractSolcOutput.bytecode
        auxData == getAuxData(contractSolcOutput)
    IN  IF auxData # None /\ auxData[1] # <<>>
        THEN SplitFirst(code, auxData[1])
        ELSE code

\* The message template of getSolcErrorsFromTranspilerErrors, piece by piece.
ErrorMessage(x, file, contract, isDeployedBytecode) ==
    << file, ":", contract, " error [", x.message, "] at index ", x.index, " of ",
       IF isDeployedBytecode THEN "deployed bytecode" ELSE "bytecode" >>

getSolcErrorsFromTranspilerErrors(transpilationErrors, file, contract, isDeployedBytecode) ==
    [i \in 1..Len(transpilationErrors) |->
        LET message == ErrorMessage(transpilationErrors[i], file, contract,
                                    isDeployedBytecode)
        IN  [component |-> "general", formattedMessage |-> message,
             message |-> message, severity |-> "error", type |-> "CompilerError"]]

getFormattedSolcErrorOutput(message) ==
    << [component |-> "general", formattedMessage |-> <<message>>,
        message |-> <<message>>, severity |-> "error", type |-> "JSONError"] >>

\* The two entry points of the transpiler.  The result's bytecode is the
\* transpilation of the first buffer; originalBytecodeLength is diagnostic.
transpile(bytecode, deployedBytecode, originalBytecodeSize) ==
    TranspileBuffer(bytecode)

transpileRawBytecode(deployedBytecode) == TranspileBuffer(deployedBytecode)

\* The calls transpileContract makes, in order.
TranspileCall(bytecode, deployedBytecode, originalBytecodeSize) ==
    [fn |-> "transpile", bytecode |-> bytecode,
     deployedBytecode |-> deployedBytecode,
     originalBytecodeSize |-> originalBytecodeSize]

RawCall(deployedBytecode) ==
    [fn |-> "transpileRawBytecode", bytecode |-> deployedBytecode,
     deployedBytecode |-> <<>>, originalBytecodeSize |-> 0]

\* A TranspilationOutput: each field None (absent) or Some(value).
Output(bytecode, deployedBytecode, errors, calls) ==
    [bytecode |-> bytecode, deployedBytecode |-> deployedBytecode,
     errors |-> errors, calls |-> calls]

\* The body of transpileContract.  tagDeployed is the isDeployedBytecode
\* argument given for the errors of the deployed-bytecode pass (true in the
\* code); dropConstructor says whether a failed deployed-bytecode pass
\* returns the errors alone (it does in the code).
TranspileContractBody(contractSolcOutput, filename, contractName, tagDeployed, dropConstructor) ==
    LET originalBytecodeSize == Len(hexStrToBuf(contractSolcOutput.bytecode))
        bytecode == getBytecode(contractSolcOutput, FALSE)
        deployedBytecode == getBytecode(contractSolcOutput, TRUE)
        first == transpile(hexStrToBuf(bytecode), hexStrToBuf(deployedBytecode),
                           originalBytecodeSize)
        call1 == IF bytecode # <<>>
                 THEN <<TranspileCall(hexStrToBuf(bytecode),
                                      hexStrToBuf(deployedBytecode),
                                      originalBytecodeSize)>>
                 ELSE <<>>
        bytecode2 == IF bytecode # <<>> THEN bufToHexString(first.bytecode)
                     ELSE bytecode
        second == transpileRawBytecode(hexStrToBuf(deployedBytecode))
        call2 == call1 \o <<RawCall(hexStrToBuf(deployedBytecode))>>
    IN  IF bytecode = <<>> /\ deployedBytecode = <<>>
        THEN Output(None, None, None, <<>>)
        ELSE IF bytecode # <<>> /\ ~first.succeeded
        THEN Output(None, None,
                    Some(getSolcErrorsFromTranspilerErrors(first.errors, filename,
                                                           contractName, FALSE)),
                    call1)
        ELSE IF deployedBytecode = <<>>
        THEN Output(Some(bytecode2), Some(deployedBytecode), None, call1)
        ELSE IF ~second.succeeded
        THEN Output(IF dropConstructor THEN None ELSE Some(bytecode2), None,
                    Some(getSolcErrorsFromTranspilerErrors(second.errors, filename,
                                                           contractName, tagDeployed)),
                    call2)
        ELSE Output(Some(bytecode2), Some(bufToHexString(second.bytecode)), None,
                    call2)

\* transpileContract that hands the constructor result back beside the
\* errors of a failed deployed-bytecode pass.
transpileContractPartial(contractSolcOutput, filename, contractName) ==
    TranspileContractBody(contractSolcOutput, filename, contractName, TRUE, FALSE)

\* transpileContract whose deployed-bytecode errors are tagged like the
\* constructor's (the isDeployedBytecode argument left at its default).
transpileContractUntagged(contractSolcOutput, filename, contractName) ==
    TranspileContractBody(contractSolcOutput, filename, contractName, FALSE, TRUE)

\* transpileContract: the constructor pass, then the deployed-bytecode pass;
\* the first pass that fails ends the contract with its errors alone.  With
\* both codes empty the solc output itself is returned, which has none of
\* the three fields.
transpileContract(contractSolcOutput, filename, contractName) ==
    TranspileContractBody(contractSolcOutput, filename, contractName, TRUE, TRUE)

(***************************************************************************)
(* compiler.ts: input validation.                                          *)
(*                                                                         *)
(* The configuration is kept by the shape of its JSON: whether the string  *)
(* parses, what the top-level value and settings are, what kind of value   *)
(* settings.executionManagerAddress is, and outputSelection down to the    *)
(* kind of each file entry and of each contract entry.  The entries of an  *)
(* object are a sequence, in the order of Object.entries, of records with  *)
(* the key under `name`; a contract entry that is an array has its strings *)
(* under `items`.                                                          *)
(***************************************************************************)
SettingsMissing == "Input must include \"settings\" object in top-level object."

AddressMissing == "Input must include \"executionManagerAddress\" field in the \"settings\" object or there must be an \"EXECUTION_MANAGER_ADDRESS\" environment variable, and it must be a valid Ethereum address as a hex string (case insensitive)."

SelectionMissing == "Input must include a populated \"outputSelection\" object in \"settings\""

SelectionMalformed == "\"outputSelection\" configuration in \"settings\" must be of the form: { \"filename\": { \"contractName\": [] }, ... }"

\* settings.executionManagerAddress || process.env.EXECUTION_MANAGER_ADDRESS
getExecutionManagerAddress(configObject, envAddress) ==
    IF configObject.executionManagerAddress # "undefined"
    THEN configObject.executionManagerAddress
    ELSE envAddress

\* The loop over the entries of outputSelection, from entry i on: the first
\* entry that is no object, or holds a contract entry that is no array, ends
\* it with the error; Object.values of a null entry throws a TypeError.
RECURSIVE CheckSelection(_, _)
CheckSelection(files, i) ==
    IF i > Len(files) THEN "ok"
    ELSE IF files[i].kind \in {"string", "array"} THEN "errors"
    ELSE IF files[i].kind = "null" THEN "throws"
    ELSE IF \E c \in 1..Len(files[i].contracts) : files[i].contracts[c].kind # "array"
    THEN "errors"
    ELSE CheckSelection(files, i + 1)

InputOk == [kind |-> "ok", errors |-> <<>>]

InputErrors(message) ==
    [kind |-> "errors", errors |-> getFormattedSolcErrorOutput(message)]

InputThrows == [kind |-> "throws", errors |-> <<>>]

\* A validation that lets a configuration without a usable address through.
getInputErrorsNoAddress(configObject, envAddress) ==
    IF configObject.json = "null" THEN InputThrows
    ELSE IF configObject.json # "object" \/ configObject.settings # "object"
    THEN InputErrors(SettingsMissing)
    ELSE IF configObject.outputSelection.kind # "object"
    THEN InputErrors(SelectionMissing)
    ELSE LET r == CheckSelection(configObject.outputSelection.files, 1)
         IN  IF r = "ok" THEN InputOk
             ELSE IF r = "throws" THEN InputThrows
             ELSE InputErrors(SelectionMalformed)

\* getInputErrors: "ok" (undefined is returned), "errors" with the one
\* formatted record, or "throws" where the code raises a TypeError.
getInputErrors(configObject, envAddress) ==
    IF configObject.json = "null" THEN InputThrows
    ELSE IF configObject.json # "object" \/ configObject.settings # "object"
    THEN InputErrors(SettingsMissing)
    ELSE IF getExecutionManagerAddress(configObject, envAddress) # "valid"
    THEN InputErrors(AddressMissing)
    ELSE IF configObject.outputSelection.kind # "object"
    THEN InputErrors(SelectionMissing)
    ELSE LET r == CheckSelection(configObject.outputSelection.files, 1)
         IN  IF r = "ok" THEN InputOk
             ELSE IF r = "throws" THEN InputThrows
             ELSE InputErrors(SelectionMalformed)

(***************************************************************************)
(* compiler.ts: getSolcConfig and formatOutput.                            *)
(***************************************************************************)
EntryOf(kind, name, contracts, items) ==
    [kind |-> kind, name |-> name, contracts |-> contracts, items |-> items]

\* An entry of outputSelection[filename]: the array of output names.
ContractEntry(name, items) == EntryOf("array", name, <<>>, items)

\* An entry of outputSelection: the object of contract entries.
FileEntry(name, contracts) == EntryOf("object", name, contracts, <<>>)

\* `name in object`
HasKey(entries, name) == \E i \in 1..Len(entries) : entries[i].name = name

\* object[name], for a key the object has
Get(entries, name) == entries[CHOOSE i \in 1..Len(entries) : entries[i].name = name]

\* x.toLowerCase(), on the output names the configurations are made of
toLowerCase(x) == IF x = "evm.legacyAssembly" THEN "evm.legacyassembly" ELSE x

\* The property keys of an array: its indices, as strings, and 'length'.
ArrayKeys(array) == {ToString(i - 1) : i \in 1..Len(array)} \cup {"length"}

\* `key in array`: whether the array has the PROPERTY key, whatever its
\* elements are.
InArray(key, array) == key \in ArrayKeys(array)

\* The test both functions make on the array of output names.
ListsLegacyAssembly(array) ==
    InArray("evm.legacyAssembly", array) \/ InArray("*", array)

\* getSolcConfig, for one contract entry: lowerConfig is tested and
\* 'evm.legacyAssembly' pushed onto the entry.
SolcContractConfig(contractConfig) ==
    LET lowerConfig == [i \in 1..Len(contractConfig.items) |->
                            toLowerCase(contractConfig.items[i])]
    IN  IF ~ListsLegacyAssembly(lowerConfig)
        THEN [contractConfig EXCEPT !.items = Append(@, "evm.legacyAssembly")]
        ELSE contractConfig

\* getSolcConfig: the clone of the configuration without
\* executionManagerAddress, every contract entry passed through the test.
getSolcConfig(configObject) ==
    LET files == configObject.outputSelection.files
    IN  [kind |-> "config",
         files |-> [f \in 1..Len(files) |->
                      [files[f] EXCEPT !.contracts =
                          [c \in 1..Len(files[f].contracts) |->
                              SolcContractConfig(files[f].contracts[c])]]]]

\* formatOutput: inputConfig.settings.outputSelection[filenameConfig]
\* [contractNameConfig] for a contract, None where the lookup gives undefined.
OutputConfig(inputConfig, filename, contractName) ==
    LET files == inputConfig.outputSelection.files
        filenameConfig == IF HasKey(files, filename) THEN filename ELSE "*"
    IN  IF ~HasKey(files, filenameConfig) THEN None
        ELSE LET contracts == Get(files, filenameConfig).contracts
                 contractNameConfig ==
                    IF HasKey(contracts, contractName) THEN contractName ELSE "*"
             IN  IF ~HasKey(contracts, contractNameConfig) THEN None
                 ELSE Some(Get(contracts, contractNameConfig).items)

\* delete contract.evm.legacyAssembly: the assembly goes, and with it the
\* '.auxdata' it holds.
DeleteLegacyAssembly(contract) ==
    [contract EXCEPT !.legacyAssembly = FALSE, !.auxdata = None]

\* formatOutput throws a TypeError where `in` is applied to undefined: the
\* file has no entry and there is no '*' entry, or the contract has no entry
\* and the chosen file entry has no '*'.
FormatThrows(contracts, inputConfig) ==
    \E k \in DOMAIN contracts : OutputConfig(inputConfig, k[1], k[2]) = None

\* formatOutput: the contracts of the output, for a configuration every
\* lookup of which succeeds.
formatOutput(contracts, inputConfig) ==
    [k \in DOMAIN contracts |->
        IF ~ListsLegacyAssembly(OutputConfig(inputConfig, k[1], k[2])[1])
        THEN DeleteLegacyAssembly(contracts[k])
        ELSE contracts[k]]

(***************************************************************************)
(* State.                                                                  *)
(***************************************************************************)
VARIABLES
    tcode,        \* transpiler: the input buffer
    tstage,       \* transpiler: Decoding, Validating, Rewriting, Remapping,
                  \* Encoded or Failed
    tfailedIn,    \* transpiler: the stage that failed, or "none"
    tinstrs,      \* transpiler: the decoded instructions
    terrors,      \* transpiler: the TranspilationErrors
    tout,         \* transpiler: the emitted stream
    tjumpMap,     \* transpiler: original offset -> new offset
    pc,           \* compile: "start", "transpiling" or "done"
    config,       \* compile: the configuration given (configJsonString)
    env,          \* compile: process.env.EXECUTION_MANAGER_ADDRESS
    solcOut,      \* compile: what solc.compile answers for this input
    resContracts, \* compile: res.contracts, by <<filename, contractName>>
    resErrors,    \* compile: res.errors, None or Some(list)
    processed,    \* compile: the contracts the loop has done, in order
    calls,        \* compile: the transpiler calls made for each contract
    solcCalls,    \* compile: how often solc.compile was invoked
    solcConfig,   \* compile: what solc.compile was last invoked with
    ret           \* compile: the value returned

tvars == <<tcode, tstage, tfailedIn, tinstrs, terrors, tout, tjumpMap>>

cvars == <<pc, config, env, solcOut, resContracts, resErrors, processed, calls,
           solcCalls, solcConfig, ret>>

vars == <<tcode, tstage, tfailedIn, tinstrs, terrors, tout, tjumpMap,
          pc, config, env, solcOut, resContracts, resErrors, processed, calls,
          solcCalls, solcConfig, ret>>

NoReturn == [kind |-> "none", errors |-> None, contracts |-> <<>>]

NoSolcConfig == [kind |-> "none", files |-> <<>>]

TIdle ==
    /\ tcode = <<>>
    /\ tstage = "idle"
    /\ tfailedIn = "none"
    /\ tinstrs = <<>>
    /\ terrors = <<>>
    /\ tout = <<>>
    /\ tjumpMap = <<>>

CIdle ==
    /\ pc = "idle"
    /\ config = <<>>
    /\ env = "undefined"
    /\ solcOut = <<>>
    /\ resContracts = <<>>
    /\ resErrors = None
    /\ processed = <<>>
    /\ calls = <<>>
    /\ solcCalls = 0
    /\ solcConfig = NoSolcConfig
    /\ ret = NoReturn

(***************************************************************************)
(* The transpiler as a state machine over one buffer (spec 4.4):           *)
(* Decoding -> Validating -> Rewriting -> Remapping -> Encoded, or Failed. *)
(***************************************************************************)
\* The bytes the checked buffers are made of: plain instructions whose codes
\* double as jump destinations, a replaced one, a disallowed one, a jump, a
\* push, and a byte that is no instruction.
TBytes == {STOP, 3, 4, 12, ADDRESS, BALANCE, JUMP, PUSH1}

TBuffers == UNION {[1..n -> TBytes] : n \in 0..MaxCodeLen}

TInit ==
    /\ tcode \in TBuffers
    /\ tstage = "Decoding"
    /\ tfailedIn = "none"
    /\ tinstrs = <<>>
    /\ terrors = <<>>
    /\ tout = <<>>
    /\ tjumpMap = <<>>
    /\ CIdle

TDecode ==
    /\ tstage = "Decoding"
    /\ LET d == Decode(tcode)
       IN  /\ tstage' = IF d.ok THEN "Validating" ELSE "Failed"
           /\ tfailedIn' = IF d.ok THEN "none" ELSE "Decoding"
           /\ tinstrs' = d.instrs
           /\ terrors' = d.errors
    /\ UNCHANGED <<tcode, tout, tjumpMap, cvars>>

TValidate ==
    /\ tstage = "Validating"
    /\ LET v == Validate(tinstrs)
       IN  /\ terrors' = v
           /\ tstage' = IF v = <<>> THEN "Rewriting" ELSE "Failed"
           /\ tfailedIn' = IF v = <<>> THEN "none" ELSE "Validating"
    /\ UNCHANGED <<tcode, tinstrs, tout, tjumpMap, cvars>>

TRewrite ==
    /\ tstage = "Rewriting"
    /\ LET w == Rewrite(tinstrs)
       IN  /\ tout' = w.bytecode
           /\ tjumpMap' = w.jumpMap
    /\ tstage' = "Remapping"
    /\ UNCHANGED <<tcode, tfailedIn, tinstrs, terrors, cvars>>

TRemap ==
    /\ tstage = "Remapping"
    /\ LET m == Remap(tinstrs, tout, tjumpMap)
       IN  /\ tout' = m.bytecode
           /\ terrors' = m.errors
           /\ tstage' = IF m.ok THEN "Encoded" ELSE "Failed"
           /\ tfailedIn' = IF m.ok THEN "none" ELSE "Remapping"
    /\ UNCHANGED <<tcode, tinstrs, tjumpMap, cvars>>

TNext == TDecode \/ TValidate \/ TRewrite \/ TRemap

TSpec == TInit /\ [][TNext]_vars

(***************************************************************************)
(* compile (compiler.ts): the inputs.                                      *)
(***************************************************************************)
\* The contracts of a batch, in the order new keys are added to it.
KeyList ==
    << <<"a.sol", "C">>, <<"a.sol", "D">>, <<"b.sol", "C">>, <<"b.sol", "D">> >>

KeysOf(n) == {KeyList[i] : i \in 1..n}

\* Executable parts of constructor bytecode: empty, one plain instruction, one
\* replaced instruction, two disallowed instructions, a jump to no
\* instruction.
CtorBodies ==
    { <<>>, <<STOP>>, <<ADDRESS>>, <<BALANCE, STOP, BALANCE>>, <<PUSH1, 3, JUMP>> }

\* Executable parts of deployed bytecode: empty, one replaced instruction, one
\* disallowed instruction, a truncated push.
DepBodies == { <<>>, <<ADDRESS>>, <<BALANCE>>, <<PUSH1>> }

\* The metadata trailer, one byte standing for the CBOR blob.
AuxData == <<BALANCE>>

\* The contract solc gives for executable parts ctor and dep, with the
\* legacyAssembly compile asks for: with a trailer, both codes end with it
\* and legacyAssembly names it.
SolcContract(ctor, dep, withAux) ==
    LET trailer == IF withAux THEN AuxData ELSE <<>>
    IN  [bytecode |-> BytesToHex(ctor \o trailer),
         deployedBytecode |-> BytesToHex(dep \o trailer),
         legacyAssembly |-> TRUE,
         auxdata |-> IF withAux THEN Some(BytesToHex(AuxData)) ELSE None]

\* Every pair of executable parts without a trailer, and with a trailer the
\* pairs in which it follows nothing, other bytes, or bytes equal to it.
ContractSample ==
    {SolcContract(c, d, FALSE) : c \in CtorBodies, d \in DepBodies}
    \cup {SolcContract(c, d, TRUE) :
            c \in {<<STOP>>, <<ADDRESS>>}, d \in {<<>>, <<BALANCE>>}}

Batches == UNION {[KeysOf(n) -> ContractSample] : n \in 1..MaxContracts}

SampleBatch ==
    (KeyList[1] :> SolcContract(<<BALANCE, STOP, BALANCE>>, <<BALANCE>>, FALSE))
    @@ (KeyList[2] :> SolcContract(<<ADDRESS>>, <<ADDRESS>>, FALSE))

SolcRecord(severity) ==
    [component |-> "general", formattedMessage |-> <<"solc">>, message |-> <<"solc">>,
     severity |-> severity, type |-> "Warning"]

FileConfigs ==
    {[kind |-> k, contracts |-> <<>>] : k \in {"null", "string", "array"}}
    \cup {[kind |-> "object", contracts |-> cs] :
            cs \in UNION {[1..n -> {"array", "string"}] : n \in 0..MaxSelection}}

\* The keys the entries of the checked selections have, by position.
FileNames == <<"a.sol", "b.sol", "c.sol", "d.sol">>

ContractNames == <<"C", "D", "E", "F">>

\* The entries of an outputSelection whose values have the given shapes:
\* arrays are empty.
NamedFiles(fs) ==
    [f \in 1..Len(fs) |->
        EntryOf(fs[f].kind, FileNames[f],
                [c \in 1..Len(fs[f].contracts) |->
                    EntryOf(fs[f].contracts[c], ContractNames[c], <<>>, <<>>)],
                <<>>)]

Selections ==
    {[kind |-> k, files |-> <<>>] : k \in {"undefined", "string", "empty"}}
    \cup {[kind |-> "object", files |-> NamedFiles(fs)] :
            fs \in UNION {[1..n -> FileConfigs] : n \in 1..MaxSelection}}

NoSelection == [kind |-> "undefined", files |-> <<>>]

Config(parses, json, settings, address, selection) ==
    [parses |-> parses, json |-> json, settings |-> settings,
     executionManagerAddress |-> address, outputSelection |-> selection]

Configs ==
    { Config(FALSE, "none", "undefined", "undefined", NoSelection) }
    \cup { Config(TRUE, j, "undefined", "undefined", NoSelection) : j \in {"null", "number"} }
    \cup { Config(TRUE, "object", t, "undefined", NoSelection) :
             t \in {"undefined", "null", "string"} }
    \cup { Config(TRUE, "object", "object", a, o) :
             a \in {"undefined", "invalid", "valid"}, o \in Selections }

\* { "*": { "*": [] } } with a valid address.
ValidConfig ==
    Config(TRUE, "object", "object", "valid",
           [kind |-> "object",
            files |-> <<FileEntry("*", <<ContractEntry("*", <<>>)>>)>>])

\* The output names an array of the checked selections holds.
ItemLists == { <<"abi">>, <<"evm.legacyAssembly">>, <<"*">> }

\* The contract entries of a file entry: for C, for '*', or for both.
LegacyContracts ==
    {<<ContractEntry("C", v)>> : v \in ItemLists}
    \cup {<<ContractEntry("*", v)>> : v \in ItemLists}
    \cup {<<ContractEntry("C", v), ContractEntry("*", w)>> : v \in ItemLists, w \in ItemLists}

\* The file entries of an outputSelection: for a.sol, for '*', or for both.
LegacyFiles ==
    {<<FileEntry("a.sol", v)>> : v \in LegacyContracts}
    \cup {<<FileEntry("*", v)>> : v \in LegacyContracts}
    \cup {<<FileEntry("a.sol", v), FileEntry("*", w)>> :
            v \in LegacyContracts, w \in LegacyContracts}

\* Valid configurations whose outputSelection names a.sol, '*' or both, each
\* with entries for C, '*' or both.
LegacyConfigs ==
    { Config(TRUE, "object", "object", "valid", [kind |-> "object", files |-> fs]) :
        fs \in LegacyFiles }

\* Whether solc, given the selection, has output for the contract: some
\* entry for the file or for '*' has an entry for the contract or for '*'
\* (getSolcConfig leaves no such entry empty).
SolcSelects(cfg, key) ==
    /\ cfg.outputSelection.kind = "object"
    /\ \E f \in 1..Len(cfg.outputSelection.files) :
         /\ cfg.outputSelection.files[f].name \in {key[1], "*"}
         /\ \E c \in 1..Len(cfg.outputSelection.files[f].contracts) :
              cfg.outputSelection.files[f].contracts[c].name \in {key[2], "*"}

\* The contracts of a compilation that solc answers with.
Selected(cfg, batch) ==
    [k \in {x \in DOMAIN batch : SolcSelects(cfg, x)} |-> batch[k]]

LegacyBatch ==
    (KeyList[1] :> SolcContract(<<STOP>>, <<>>, TRUE))
    @@ (KeyList[2] :> SolcContract(<<ADDRESS>>, <<ADDRESS>>, FALSE))

Init ==
    /\ TIdle
    /\ pc = "start"
    /\ \/ /\ config \in Configs
          /\ env \in {"undefined", "invalid", "valid"}
          /\ solcOut = [errors |-> None, contracts |-> Selected(config, SampleBatch)]
       \/ /\ config \in LegacyConfigs
          /\ env = "undefined"
          /\ solcOut = [errors |-> None, contracts |-> Selected(config, LegacyBatch)]
       \/ /\ config = ValidConfig
          /\ env = "undefined"
          /\ solcOut \in {[errors |-> Some(<<SolcRecord(v)>>), contracts |-> SampleBatch] :
                            v \in {"warning", "error"}}
       \/ /\ config = ValidConfig
          /\ env = "undefined"
          /\ solcOut \in {[errors |-> None, contracts |-> b] : b \in Batches}
    /\ resContracts = <<>>
    /\ resErrors = None
    /\ processed = <<>>
    /\ calls = <<>>
    /\ solcCalls = 0
    /\ solcConfig = NoSolcConfig
    /\ ret = NoReturn

(***************************************************************************)
(* compile (compiler.ts): the steps.                                       *)
(***************************************************************************)
Return(kind, errors, contracts) ==
    [kind |-> kind, errors |-> errors, contracts |-> contracts]

\* JSON.parse throws: the string goes to solc.compile as it is, and solc's
\* answer is returned.
CompileUnparseable ==
    /\ pc = "start"
    /\ ~config.parses
    /\ solcCalls' = solcCalls + 1
    /\ solcConfig' = [kind |-> "unparsed", files |-> <<>>]
    /\ ret' = Return("solc", Some(<<SolcRecord("error")>>), <<>>)
    /\ pc' = "done"
    /\ UNCHANGED <<tvars, config, env, solcOut, resContracts, resErrors, processed, calls>>

\* getInputErrors raises a TypeError, which compile does not catch.
CompileThrows ==
    /\ pc = "start"
    /\ config.parses
    /\ getInputErrors(config, env).kind = "throws"
    /\ ret' = Return("throws", None, <<>>)
    /\ pc' = "done"
    /\ UNCHANGED <<tvars, config, env, solcOut, resContracts, resErrors, processed, calls,
                   solcCalls, solcConfig>>

\* getInputErrors returns the formatted error, and so does compile.
CompileInputErrors ==
    /\ pc = "start"
    /\ config.parses
    /\ getInputErrors(config, env).kind = "errors"
    /\ ret' = Return("inputErrors", Some(getInputErrors(config, env).errors), <<>>)
    /\ pc' = "done"
    /\ UNCHANGED <<tvars, config, env, solcOut, resContracts, resErrors, processed, calls,
                   solcCalls, solcConfig>>

HasSolcError(out) ==
    /\ out.errors # None
    /\ \E i \in 1..Len(out.errors[1]) : out.errors[1][i].severity = "error"

\* solc reports an error: its answer is returned untouched.
CompileSolcFails ==
    /\ pc = "start"
    /\ config.parses
    /\ getInputErrors(config, env).kind = "ok"
    /\ HasSolcError(solcOut)
    /\ solcCalls' = solcCalls + 1
    /\ solcConfig' = getSolcConfig(config)
    /\ ret' = Return("solc", solcOut.errors, solcOut.contracts)
    /\ pc' = "done"
    /\ UNCHANGED <<tvars, config, env, solcOut, resContracts, resErrors, processed, calls>>

\* solc compiles: res is its answer, and the loop over the contracts starts.
CompileSolc ==
    /\ pc = "start"
    /\ config.parses
    /\ getInputErrors(config, env).kind = "ok"
    /\ ~HasSolcError(solcOut)
    /\ solcCalls' = solcCalls + 1
    /\ solcConfig' = getSolcConfig(config)
    /\ resContracts' = solcOut.contracts
    /\ resErrors' = solcOut.errors
    /\ calls' = [k \in DOMAIN solcOut.contracts |-> <<>>]
    /\ pc' = "transpiling"
    /\ UNCHANGED <<tvars, config, env, solcOut, processed, ret>>

Done(seq) == {seq[i] : i \in 1..Len(seq)}

\* The files the nested loops are in the middle of.
OpenFiles(keys, done) ==
    {k[1] : k \in {x \in keys : x \in done /\ \E y \in keys \ done : y[1] = x[1]}}

\* A write-back by completion order: the i-th result goes to the i-th key.
WriteBackKeyByOrder(key, done) == KeyList[Len(done) + 1]

\* The contract the results of `key` are written to.
WriteBackKey(key, done) == key

OrEmpty(field) == IF field = None THEN <<>> ELSE field[1]

\* The loop that ends at the first contract that reports errors.
LoopDoneOnError(keys, done, errors) == Done(done) = keys \/ errors # None

\* The loops end when every contract of every file has been visited.
LoopDone(keys, done, errors) == Done(done) = keys

\* One pass of the loop body, for the next contract in the order of the
\* entries of res.contracts (an order the solc output decides).
TranspileStep(key) ==
    /\ pc = "transpiling"
    /\ ~LoopDone(DOMAIN resContracts, processed, resErrors)
    /\ key \in DOMAIN resContracts \ Done(processed)
    /\ LET open == OpenFiles(DOMAIN resContracts, Done(processed))
       IN  open = {} \/ key[1] \in open
    /\ LET output == transpileContract(resContracts[key], key[1], key[2])
           target == WriteBackKey(key, processed)
       IN  /\ resContracts' =
                [resContracts EXCEPT
                    ![target] = [@ EXCEPT
                        !.bytecode = remove0x(OrEmpty(output.bytecode)),
                        !.deployedBytecode = remove0x(OrEmpty(output.deployedBytecode))]]
           /\ resErrors' =
                IF output.errors # None
                THEN Some(OrEmpty(resErrors) \o output.errors[1])
                ELSE resErrors
           /\ calls' = [calls EXCEPT ![key] = output.calls]
    /\ processed' = Append(processed, key)
    /\ UNCHANGED <<tvars, pc, config, env, solcOut, solcCalls, solcConfig, ret>>

\* return formatOutput(res, json): res is formatted in place and returned,
\* or the TypeError of formatOutput leaves compile.
FormatOutput ==
    /\ pc = "transpiling"
    /\ LoopDone(DOMAIN resContracts, processed, resErrors)
    /\ IF FormatThrows(resContracts, config)
       THEN /\ ret' = Return("throws", None, <<>>)
            /\ UNCHANGED resContracts
       ELSE /\ resContracts' = formatOutput(resContracts, config)
            /\ ret' = Return("output", resErrors, formatOutput(resContracts, config))
    /\ pc' = "done"
    /\ UNCHANGED <<tvars, config, env, solcOut, resErrors, processed, calls,
                   solcCalls, solcConfig>>

Next ==
    \/ CompileUnparseable
    \/ CompileThrows
    \/ CompileInputErrors
    \/ CompileSolcFails
    \/ CompileSolc
    \/ \E key \in DOMAIN resContracts : TranspileStep(key)
    \/ FormatOutput

Spec == Init /\ [][Next]_vars

(***************************************************************************)
(* Claims about compile, checked under Spec.                               *)
(***************************************************************************)
Keys == DOMAIN solcOut.contracts

\* What solc gave for contract k.
Input(k) == solcOut.contracts[k]

\* For every contract solc may give: the buffers transpileContract takes
\* for it and the outcome of the pipeline on each.
PassTable ==
    [c \in ContractSample |->
        LET ctor == hexStrToBuf(getBytecode(c, FALSE))
            dep == hexStrToBuf(getBytecode(c, TRUE))
        IN  [ctor |-> ctor, ctorResult |-> TranspileBuffer(ctor),
             dep |-> dep, depResult |-> TranspileBuffer(dep)]]

CtorIn(k) == PassTable[Input(k)].ctor

DepIn(k) == PassTable[Input(k)].dep

CtorResult(k) == PassTable[Input(k)].ctorResult

DepResult(k) == PassTable[Input(k)].depResult

CtorFails(k) == CtorIn(k) # <<>> /\ ~CtorResult(k).succeeded

DepFails(k) == DepIn(k) # <<>> /\ ~DepResult(k).succeeded

Fails(k) == CtorFails(k) \/ DepFails(k)

\* The hex, without prefix, of the transpilation of a buffer, given the
\* pipeline's result for it.
TranspiledHex(buf, result) ==
    IF buf = <<>> THEN <<>> ELSE BytesToHex(result.bytecode)

IsRecordOf(e, k) ==
    Len(e.message) = 9 /\ e.message[1] = k[1] /\ e.message[3] = k[2]

\* The records of an errors array that name contract k, in order.
RecordsOf(list, k) ==
    LET at == {i \in 1..Len(list) : IsRecordOf(list[i], k)}
        RECURSIVE Pick(_)
        Pick(i) == IF i > Len(list) THEN <<>>
                   ELSE IF i \in at THEN <<list[i]>> \o Pick(i + 1)
                   ELSE Pick(i + 1)
    IN  Pick(1)

Returned == pc = "done" /\ ret.kind = "output"

\* C3: a contract one of whose passes failed has both bytecode fields written
\* back empty and its errors in the errors array; a contract with an error
\* record never keeps bytecode, transpiled or original, in either field.
C3_NoPartialBytecode ==
    /\ \A k \in Done(processed) :
         LET recs == RecordsOf(OrEmpty(resErrors), k)
             empty == /\ resContracts[k].bytecode = <<>>
                      /\ resContracts[k].deployedBytecode = <<>>
         IN  /\ Fails(k) => (empty /\ recs # <<>>)
             /\ recs # <<>> => empty
    /\ Returned =>
         /\ ret.contracts = resContracts
         /\ ret.errors = resErrors
         /\ Done(processed) = Keys

\* compile returned a contract whose constructor pass succeeded and whose
\* deployed-bytecode pass failed, with both fields empty.
C3_Witness ==
    /\ Returned
    /\ \E k \in Keys :
         /\ CtorIn(k) # <<>>
         /\ ~CtorFails(k)
         /\ DepFails(k)
         /\ ret.contracts[k].bytecode = <<>>
         /\ ret.contracts[k].deployedBytecode = <<>>

ValidInput ==
    /\ config.parses
    /\ getInputErrors(config, env).kind = "ok"
    /\ ~HasSolcError(solcOut)

HasTagged(list, k, tag) ==
    \E i \in 1..Len(list) : IsRecordOf(list[i], k) /\ list[i].message[9] = tag

\* C5 as stated: for a contract whose constructor bytecode and deployed
\* bytecode both hold violations the errors array has the errors of both
\* passes, each tagged with the bytecode it occurred in.
C5_BothPassesReported ==
    \A k \in Done(processed) :
        (CtorFails(k) /\ DepFails(k)) =>
            /\ HasTagged(OrEmpty(resErrors), k, "bytecode")
            /\ HasTagged(OrEmpty(resErrors), k, "deployed bytecode")

\* The records a failed pass with error list E must give for contract k.
ExpectedRecords(k, E, tag) ==
    [i \in 1..Len(E) |->
        LET m == << k[1], ":", k[2], " error [", E[i].message, "] at index ",
                    E[i].index, " of ", tag >>
        IN  [component |-> "general", formattedMessage |-> m, message |-> m,
             severity |-> "error", type |-> "CompilerError"]]

\* C6: the records appended for a failed result with error list E are |E|
\* records in the order of E, each of severity 'error' with a message that
\* embeds file name, contract name, the error's message and index, and says
\* 'deployed bytecode' exactly when the deployed-bytecode pass failed and
\* 'bytecode' when the constructor pass did; nothing else is appended.
C6_ErrorRecords ==
    pc \in {"transpiling", "done"} /\ (pc = "done" => ret.kind = "output") =>
        LET list == OrEmpty(resErrors)
            given == OrEmpty(solcOut.errors)
        IN  /\ Len(list) >= Len(given)
            /\ SubSeq(list, 1, Len(given)) = given
            /\ \A i \in (Len(given) + 1)..Len(list) :
                 \E k \in Done(processed) : IsRecordOf(list[i], k)
            /\ \A k \in Done(processed) :
                 RecordsOf(list, k) =
                    IF CtorFails(k)
                    THEN ExpectedRecords(k, CtorResult(k).errors, "bytecode")
                    ELSE IF DepFails(k)
                    THEN ExpectedRecords(k, DepResult(k).errors, "deployed bytecode")
                    ELSE <<>>

\* One contract gave two constructor errors, in order, and another one an
\* error of its deployed bytecode.
C6_Witness ==
    /\ Returned
    /\ \E k \in Keys :
         LET recs == RecordsOf(OrEmpty(ret.errors), k)
         IN  /\ Len(recs) = 2
             /\ recs[1].message[7] < recs[2].message[7]
             /\ recs[1].message[9] = "bytecode"
    /\ \E k \in Keys : HasTagged(OrEmpty(ret.errors), k, "deployed bytecode")

\* The configuration is not a well-formed one with a valid address.
Malformed ==
    \/ ~config.parses
    \/ config.json # "object"
    \/ config.settings # "object"
    \/ ~(\/ config.executionManagerAddress = "valid"
         \/ config.executionManagerAddress = "undefined" /\ env = "valid")
    \/ config.outputSelection.kind # "object"
    \/ \E f \in 1..Len(config.outputSelection.files) :
         \/ config.outputSelection.files[f].kind # "object"
         \/ \E c \in 1..Len(config.outputSelection.files[f].contracts) :
              config.outputSelection.files[f].contracts[c].kind # "array"

NoTranspilerCall == \A k \in DOMAIN calls : calls[k] = <<>>

\* C7 as stated: for every malformed configuration compile returns exactly
\* one formatted error record and no contracts, and invokes neither the
\* compiler nor the transpiler.
C7_FailFast ==
    (pc = "done" /\ Malformed) =>
        /\ ret.kind = "inputErrors"
        /\ Len(ret.errors[1]) = 1
        /\ ret.errors[1][1].severity = "error"
        /\ ret.contracts = <<>>
        /\ solcCalls = 0
        /\ NoTranspilerCall

\* The code with only the auxdata trailer removed.
StripTrailer(code, auxData) ==
    IF /\ auxData # None
       /\ Len(code) >= Len(auxData[1])
       /\ SubSeq(code, Len(code) - Len(auxData[1]) + 1, Len(code)) = auxData[1]
    THEN SubSeq(code, 1, Len(code) - Len(auxData[1]))
    ELSE code

\* C8 as stated: the buffers handed to transpile and transpileRawBytecode are
\* the constructor and deployed bytecode with only the auxdata trailer
\* removed, and executable bytes before the trailer are always handed on.
C8_AuxdataStripped ==
    \A k \in Done(processed) :
        LET ctor == hexStrToBuf(StripTrailer(Input(k).bytecode, Input(k).auxdata))
            dep == hexStrToBuf(StripTrailer(Input(k).deployedBytecode, Input(k).auxdata))
        IN  /\ \A i \in 1..Len(calls[k]) :
                 IF calls[k][i].fn = "transpile"
                 THEN /\ calls[k][i].bytecode = ctor
                      /\ calls[k][i].deployedBytecode = dep
                 ELSE calls[k][i].bytecode = dep
            /\ ctor # <<>> => (calls[k] # <<>> /\ calls[k][1].fn = "transpile")

\* The bytecode fields contract k must end with.
ExpectedContract(k) ==
    [Input(k) EXCEPT
        !.bytecode =
            IF Fails(k) THEN <<>> ELSE TranspiledHex(CtorIn(k), CtorResult(k)),
        !.deployedBytecode =
            IF Fails(k) THEN <<>> ELSE TranspiledHex(DepIn(k), DepResult(k))]

\* C9: in whatever order the contracts are processed, each processed
\* contract holds the un-prefixed hex of the transpilation of its own code
\* (empty on failure), and a contract not yet processed is untouched.
C9_KeyedWriteBack ==
    pc \in {"transpiling", "done"} /\ (pc = "done" => ret.kind = "output") =>
        /\ DOMAIN resContracts = Keys
        /\ \A k \in Keys :
             LET expected == IF k \in Done(processed) THEN ExpectedContract(k)
                             ELSE Input(k)
             IN  IF pc = "transpiling"
                 THEN resContracts[k] = expected
                 ELSE /\ resContracts[k].bytecode = expected.bytecode
                      /\ resContracts[k].deployedBytecode = expected.deployedBytecode
        /\ Returned => ret.contracts = resContracts

\* Two contracts with different results, the second key processed first.
C9_Witness ==
    /\ Returned
    /\ processed = <<KeyList[2], KeyList[1]>>
    /\ ret.contracts[KeyList[1]].bytecode # <<>>
    /\ ret.contracts[KeyList[2]].bytecode # <<>>
    /\ ret.contracts[KeyList[1]].bytecode # ret.contracts[KeyList[2]].bytecode

\* Whether an array of output names has 'evm.legacyAssembly' or '*' among
\* its elements.
Requested(array) ==
    \E i \in 1..Len(array) : array[i] \in {"evm.legacyAssembly", "*"}

\* Whether the caller's outputSelection for the contract, or its '*'
\* fallback, lists the legacy assembly.
CallerRequested(k) ==
    LET outputConfig == OutputConfig(config, k[1], k[2])
    IN  outputConfig # None /\ Requested(outputConfig[1])

\* Every contract entry of the configuration handed to solc lists
\* 'evm.legacyAssembly'.
AlwaysRequested ==
    \A f \in 1..Len(solcConfig.files) :
        \A c \in 1..Len(solcConfig.files[f].contracts) :
            \E i \in 1..Len(solcConfig.files[f].contracts[c].items) :
                solcConfig.files[f].contracts[c].items[i] = "evm.legacyAssembly"

\* C11 as stated: the configuration handed to solc asks for
\* evm.legacyAssembly in every contract entry, and a contract of the returned
\* output has evm.legacyAssembly exactly when the caller's outputSelection
\* for it (or its '*' fallback) lists 'evm.legacyAssembly' or '*'.
C11_LegacyAssemblySelection ==
    /\ solcConfig.kind = "config" => AlwaysRequested
    /\ Returned =>
         \A k \in DOMAIN ret.contracts :
             ret.contracts[k].legacyAssembly <=> CallerRequested(k)

(***************************************************************************)
(* Claims about the transpiler, checked under TSpec.                       *)
(***************************************************************************)
\* The instructions of the decoded stream that validation must reject.
Violations == {k \in 1..Len(tinstrs) : Disallowed(tinstrs[k])}

\* Validation has just acted on a decoded stream.
Validated == tstage = "Rewriting" \/ tfailedIn = "Validating"

\* C1: after Validating, the error list holds exactly one error for every
\* instruction that is neither whitelisted nor replaceable, carrying that
\* instruction's offset in the original stream, and no other error; N such
\* instructions give N errors and the contract fails without bytecode.
C1_ExhaustiveErrors ==
    Validated =>
        /\ Len(terrors) = Cardinality(Violations)
        /\ \A k \in Violations :
             /\ Cardinality({e \in 1..Len(terrors) :
                    terrors[e].index = tinstrs[k].originalOffset}) = 1
             /\ tcode[tinstrs[k].originalOffset + 1] = tinstrs[k].code
        /\ \A e \in 1..Len(terrors) :
             /\ \E k \in Violations : tinstrs[k].originalOffset = terrors[e].index
             /\ terrors[e].message = "disallowed opcode"
        /\ (Violations # {}) <=> (tstage = "Failed")
        /\ tstage = "Failed" => tout = <<>>

\* Validation failed on a stream with several disallowed instructions, one of
\* them at offset 3 or later, and reported them all.
C1_Witness ==
    /\ tfailedIn = "Validating"
    /\ Len(terrors) >= 2
    /\ \E e \in 1..Len(terrors) : terrors[e].index >= 3

\* The new-stream offset of the first emitted byte of instruction k.
RECURSIVE NewOffset(_)
NewOffset(k) == IF k = 1 THEN 0 ELSE NewOffset(k - 1) + Len(Emit(tinstrs[k - 1]))

JumpPushes == {k \in 1..Len(tinstrs) : IsJumpPush(tinstrs, k)}

\* The instructions that start at original offset t (none, or one).
StartingAt(t) == {j \in 1..Len(tinstrs) : tinstrs[j].originalOffset = t}

Remapped == tstage = "Encoded" \/ tfailedIn = "Remapping"

\* The value of the immediate of instruction k as it stands in the output.
EmittedImmediate(k) ==
    BytesToNat(SubSeq(tout, NewOffset(k) + 2,
                      NewOffset(k) + 1 + Len(tinstrs[k].immediate)))

Terminal == tstage \in {"Encoded", "Failed"}

AllWhitelisted ==
    /\ tfailedIn # "Decoding"
    /\ \A k \in 1..Len(tinstrs) : isAllowed(tinstrs[k].code)

====
